---- MODULE Spec2Model ----
(***************************************************************************)
(* A state-machine model of space-sim (src/script.js): the keyboard and    *)
(* mouse listeners, the frame loop animate() with its stages handleInput,  *)
(* updateShip, updateCamera, updateUI, updateSolarSystem and render, and   *)
(* the solar system built by createSolarSystem, the two callbacks of the   *)
(* model load, and the engine-glow and nav-light values updateShip sets.   *)
(*                                                                         *)
(* JavaScript numbers are modelled in fixed point:                         *)
(*   lengths, positions, velocities, accelerations : 1/100 of a unit       *)
(*   angles                                         : 1/10000 of a radian   *)
(*   values of Math.cos / Math.sin                  : 1/10000               *)
(*   opacity, scale, hue, saturation, lightness     : 1/10000               *)
(*   Date.now()                                     : milliseconds          *)
(* Every product is rounded to the nearest representable value (RDiv).     *)
(***************************************************************************)
EXTENDS Integers, Sequences, FiniteSets, TLC

(***************************************************************************)
(* Fixed-point arithmetic                                                  *)
(***************************************************************************)

\* scale of a length: 100 model units are 1.0 in the program
LenScale == 10 * 10

\* scale of a value of Math.cos / Math.sin, and of an angle in radians
TrigScale == 100 * 100

\* a / b rounded to the nearest integer, halves away from zero (b > 0)
RDiv(a, b) == IF a >= 0 THEN (a + b \div 2) \div b
                        ELSE -(((-a) + b \div 2) \div b)

\* Math.PI / 2, Math.PI and 2 * Math.PI in 1/10000 rad
HalfPi == 15708
Pi == 2 * HalfPi
TwoPi == 4 * HalfPi

\* cos on [0, pi/2]: the power series, in fixed point
CosQ(x) ==
    LET u  == RDiv(x * x, TrigScale)
        u2 == RDiv(u * u, TrigScale)
        u3 == RDiv(u2 * u, TrigScale)
        u4 == RDiv(RDiv(u3, 10) * u, 1000)
    IN  TrigScale - RDiv(u, 2) + RDiv(u2, 24) - RDiv(u3, 720) + RDiv(u4, 40320)

\* Math.cos of an angle of any size
Cos(t) ==
    LET r == t % TwoPi
        s == IF r > Pi THEN TwoPi - r ELSE r
    IN  IF s > HalfPi THEN -CosQ(Pi - s) ELSE CosQ(s)

\* Math.sin of an angle of any size
Sin(t) == Cos(t - HalfPi)

\* a trig value times a fixed-point quantity
TMul(c, q) == RDiv(c * q, TrigScale)

(***************************************************************************)
(* THREE.Vector3                                                           *)
(***************************************************************************)

Vec(a, b, c) == [x |-> a, y |-> b, z |-> c]

Zero3 == Vec(0, 0, 0)

\* Vector3.add
VAdd(v, w) == Vec(v.x + w.x, v.y + w.y, v.z + w.z)

RECURSIVE SqrtIter(_, _)
SqrtIter(n, g) ==
    LET h == (g + n \div g) \div 2
    IN  IF h >= g THEN g ELSE SqrtIter(n, h)

\* the integer part of the square root
ISqrt(n) == IF n <= 0 THEN 0 ELSE SqrtIter(n, n)

\* Vector3.length
Length(v) == ISqrt(v.x * v.x + v.y * v.y + v.z * v.z)

\* Vector3.multiplyScalar by a factor num / den
VScale(v, num, den) ==
    Vec(RDiv(v.x * num, den), RDiv(v.y * num, den), RDiv(v.z * num, den))

\* Vector3.normalize, as a vector of TrigScale; a zero vector stays zero
\* (three.js divides by length() || 1)
Normalize(v) ==
    LET l == Length(v)
    IN  VScale(v, TrigScale, IF l = 0 THEN 1 ELSE l)

\* Vector3.applyQuaternion(mesh.quaternion): the quaternion three.js keeps in
\* step with mesh.rotation, an Euler triple of order XYZ
ApplyQuaternion(v, rot) ==
    LET a == Cos(rot.x)
        b == Sin(rot.x)
        c == Cos(rot.y)
        d == Sin(rot.y)
        e == Cos(rot.z)
        f == Sin(rot.z)
        m11 == TMul(c, e)
        m12 == -TMul(c, f)
        m13 == d
        m21 == TMul(a, f) + TMul(TMul(b, e), d)
        m22 == TMul(a, e) - TMul(TMul(b, f), d)
        m23 == -TMul(b, c)
        m31 == TMul(b, f) - TMul(TMul(a, e), d)
        m32 == TMul(b, e) + TMul(TMul(a, f), d)
        m33 == TMul(a, c)
    IN  Vec(TMul(m11, v.x) + TMul(m12, v.y) + TMul(m13, v.z),
            TMul(m21, v.x) + TMul(m22, v.y) + TMul(m23, v.z),
            TMul(m31, v.x) + TMul(m32, v.y) + TMul(m33, v.z))

\* Math.round of a fixed-point length, in whole units
Round(q) == (q + LenScale \div 2) \div LenScale

\* Math.max(-Math.PI / 2, Math.min(Math.PI / 2, x))
ClampPitch(x) ==
    LET lo == IF x < HalfPi THEN x ELSE HalfPi
    IN  IF lo > -HalfPi THEN lo ELSE -HalfPi

(***************************************************************************)
(* IEEE doubles.  The angles of ship.mesh.rotation are kept a second time  *)
(* as the doubles the program holds: a sign and a magnitude, the magnitude *)
(* a whole number of 2^-61 written in four digits of base 2^20, the least  *)
(* digit first.  0.02, 0.002 and Math.PI / 2 are such numbers, and so are  *)
(* the sums, differences and small multiples of such numbers below 8.      *)
(***************************************************************************)

\* the base of a digit: 2^20
Radix == 1048576

\* the bits of the significand of a double
Significand == 53

RECURSIVE Pow2(_)
Pow2(n) == IF n = 0 THEN 1 ELSE 2 * Pow2(n - 1)

\* the number of bits of a digit
RECURSIVE Bits(_)
Bits(n) == IF n = 0 THEN 0 ELSE 1 + Bits(n \div 2)

MagZero == << 0, 0, 0, 0 >>

\* a + b
MagAdd(a, b) ==
    LET s1 == a[1] + b[1]
        s2 == a[2] + b[2] + s1 \div Radix
        s3 == a[3] + b[3] + s2 \div Radix
        s4 == a[4] + b[4] + s3 \div Radix
    IN  << s1 % Radix, s2 % Radix, s3 % Radix, s4 >>

\* a - b, for a >= b
MagSub(a, b) ==
    LET d1 == a[1] - b[1]
        d2 == a[2] - b[2] - (IF d1 < 0 THEN 1 ELSE 0)
        d3 == a[3] - b[3] - (IF d2 < 0 THEN 1 ELSE 0)
        d4 == a[4] - b[4] - (IF d3 < 0 THEN 1 ELSE 0)
    IN  << d1 % Radix, d2 % Radix, d3 % Radix, d4 >>

\* a < b
MagLess(a, b) ==
    IF a[4] # b[4] THEN a[4] < b[4]
    ELSE IF a[3] # b[3] THEN a[3] < b[3]
    ELSE IF a[2] # b[2] THEN a[2] < b[2]
    ELSE a[1] < b[1]

\* n * a, for a whole n from 0 to 1023
MagTimes(a, n) ==
    LET p1 == a[1] * n
        p2 == a[2] * n + p1 \div Radix
        p3 == a[3] * n + p2 \div Radix
        p4 == a[4] * n + p3 \div Radix
    IN  << p1 % Radix, p2 % Radix, p3 % Radix, p4 >>

\* the number of bits of a
MagBits(a) ==
    IF a[4] > 0 THEN 60 + Bits(a[4])
    ELSE IF a[3] > 0 THEN 40 + Bits(a[3])
    ELSE IF a[2] > 0 THEN 20 + Bits(a[2])
    ELSE Bits(a[1])

\* the nearest number of 53 significant bits, a tie going to the even one:
\* the rounding of every operation on doubles (fewer than 20 bits to drop)
MagRound(a) ==
    LET drop == MagBits(a) - Significand
    IN  IF drop <= 0 THEN a
        ELSE LET unit  == Pow2(drop)
                 rem   == a[1] % unit
                 floor == MagSub(a, << rem, 0, 0, 0 >>)
                 odd   == (a[1] \div unit) % 2 = 1
             IN  IF 2 * rem > unit \/ (2 * rem = unit /\ odd)
                 THEN MagAdd(floor, << unit, 0, 0, 0 >>)
                 ELSE floor

\* a double from its sign and magnitude; a zero is +0 (-0 === 0)
Double(neg, mag) == [ neg |-> neg /\ mag # MagZero, mag |-> mag ]

DZero == Double(FALSE, MagZero)

\* -x
DNeg(x) == Double(~x.neg, x.mag)

\* x + y
DAdd(x, y) ==
    IF x.neg = y.neg THEN Double(x.neg, MagRound(MagAdd(x.mag, y.mag)))
    ELSE IF MagLess(x.mag, y.mag)
         THEN Double(y.neg, MagRound(MagSub(y.mag, x.mag)))
         ELSE Double(x.neg, MagRound(MagSub(x.mag, y.mag)))

\* x - y
DSub(x, y) == DAdd(x, DNeg(y))

\* n * x for a whole n
DTimes(n, x) ==
    Double(x.neg # (n < 0), MagRound(MagTimes(x.mag, IF n < 0 THEN -n ELSE n)))

\* x < y
DLess(x, y) ==
    IF x.neg # y.neg THEN x.neg
    ELSE IF x.neg THEN MagLess(y.mag, x.mag)
    ELSE MagLess(x.mag, y.mag)

\* Math.PI / 2 = 0x1.921fb54442d18p+0
HalfPiD == Double(FALSE, << 667648, 690309, 148470, 3 >>)

\* ship.rotationSpeed: 0.02 = 0x1.47ae147ae147bp-6
RotationSpeedD == Double(FALSE, << 41944, 41943, 41943, 0 >>)

\* the factor of the mousemove listener: 0.002 = 0x1.0624dd2f1a9fcp-9
MouseScaleD == Double(FALSE, << 109052, 318767, 4194, 0 >>)

\* Math.max(-Math.PI / 2, Math.min(Math.PI / 2, x)) on doubles
DClampPitch(x) ==
    LET lo == IF DLess(x, HalfPiD) THEN x ELSE HalfPiD
    IN  IF DLess(DNeg(HalfPiD), lo) THEN lo ELSE DNeg(HalfPiD)

(***************************************************************************)
(* Program constants                                                       *)
(***************************************************************************)

\* ship.maxSpeed = 200
maxSpeed == 20000

\* ship.rotationSpeed = 0.02 rad
rotationSpeed == 200

\* acceleration per speed mode: 0.5 forward, 0.3 backward
ForwardThrust == 50
BackwardThrust == 30

\* velocity.multiplyScalar(0.98)
DragPercent == 98

\* mousemove: movementX * 0.002 rad
MouseStep == 20

\* the third-person camera offset (0, 3, 8)
CameraOffset == Vec(0, 300, 800)

\* camera.position.set(0, 5, 10) before the first frame
CameraStart == Vec(0, 500, 1000)

\* the order of Object.keys(solarSystem) without the sun
PlanetNames ==
    << "mercury", "venus", "earth", "mars",
       "jupiter", "saturn", "uranus", "neptune" >>

PlanetSet == { PlanetNames[i] : i \in 1..Len(PlanetNames) }

\* the solarSystem table: distance (1/100 unit) and speed (1/10000 rad a frame)
solarSystem ==
    [ mercury |-> [distance |-> 5000,  speed |-> 200, hasMoon |-> FALSE, hasRings |-> FALSE],
      venus   |-> [distance |-> 7000,  speed |-> 150, hasMoon |-> FALSE, hasRings |-> FALSE],
      earth   |-> [distance |-> 9000,  speed |-> 100, hasMoon |-> TRUE,  hasRings |-> FALSE],
      mars    |-> [distance |-> 11000, speed |-> 80,  hasMoon |-> FALSE, hasRings |-> FALSE],
      jupiter |-> [distance |-> 15000, speed |-> 50,  hasMoon |-> FALSE, hasRings |-> FALSE],
      saturn  |-> [distance |-> 19000, speed |-> 30,  hasMoon |-> FALSE, hasRings |-> TRUE],
      uranus  |-> [distance |-> 23000, speed |-> 20,  hasMoon |-> FALSE, hasRings |-> FALSE],
      neptune |-> [distance |-> 27000, speed |-> 10,  hasMoon |-> FALSE, hasRings |-> FALSE] ]

\* createMoon: distance 6, speed 0.05
MoonDistance == 600
MoonSpeed == 500

\* animate() with updateSolarSystem called ahead of updateCamera
AnimateBodyOrbitFirst ==
    << "handleInput", "updateShip", "updateSolarSystem",
       "updateCamera", "updateUI", "render" >>

\* the stages of animate() after requestAnimationFrame, in program order
AnimateBody ==
    << "handleInput", "updateShip", "updateCamera",
       "updateUI", "updateSolarSystem", "render" >>

\* the key codes handleInput reads
ControlKeys ==
    { "Digit1", "Digit2", "Digit3", "KeyW", "KeyS", "KeyA", "KeyD",
      "KeyQ", "KeyE", "Space", "ShiftLeft" }

(***************************************************************************)
(* Bounds of the model                                                     *)
(***************************************************************************)

\* frames run in the general specification
MaxFrames == 4

\* frames run in the speed-mode specification
ModeFrames == 3

\* frames run in the specification of the loop
LoopFrames == 3

\* frames run in the specification of the effects, and the last value of
\* Date.now() from which the clock still advances
EffectFrames == 3
MaxClock == 34

\* frames run in the specification of the speed cap
CapFrames == 260

\* frames run in the specification of the rotation pairs
PairFrames == 4

\* keys held at once in the specification of the rotation pairs
MaxHeld == 2

\* frames run in the flight, camera and pitch specifications
FlightFrames == 3
CameraFrames == 3
PitchFrames == 4

\* frames run under sustained thrust
ThrustFrames == 260

\* mousemove events delivered between two frames
MaxMoves == 1

\* asteroids created (asteroidCount is 300 in the program)
NumAsteroids == 2

(***************************************************************************)
(* State                                                                   *)
(***************************************************************************)

VARIABLES
    keys,       \* the key codes e with keys[e] = true
    mouse,      \* mouse.isDown
    ship,       \* velocity, acceleration, speedMode, mesh.rotation, mesh.position
    camera,     \* camera.position and the point given to camera.lookAt
    planets,    \* the planets list, by name: angle, distance, speed, mesh.position
    moons,      \* the moons list: parent, distance, angle, speed, mesh.position
    asteroids,  \* the scene children carrying userData.angle, and their position
    rings,      \* planet.rings.position, for each planet that has rings
    ui,         \* the texts written by updateUI, as numbers
    load,       \* the GLTF load: "pending", "loaded" or "failed"
    shipInScene,\* how many times scene.add(ship.mesh) has run
    pc,         \* 0 between frames, else the index in AnimateBody of the next stage
    frame,      \* invocations of animate so far
    raf,        \* callbacks requestAnimationFrame holds
    moves,      \* mousemove events since the last frame began
    pre,        \* the ship as it was when the current frame began
    done,       \* the stages the current frame has completed, in order
    ticks,      \* completed calls of updateSolarSystem
    start,      \* the angles drawn by Math.random() at creation
    now,        \* Date.now(), in ms since the first frame
    effects     \* what updateShip last set on the engine glows and nav lights

vars ==
    << keys, mouse, ship, camera, planets, moons, asteroids, rings, ui,
       load, shipInScene, pc, frame, raf, moves, pre, done, ticks, start,
       now, effects >>

world ==
    << planets, moons, asteroids, rings, ticks, start, load, shipInScene,
       now, effects >>

(***************************************************************************)
(* Construction: lines 30-37, 454-615 and 662-683                          *)
(***************************************************************************)

\* nothing set yet: ship.engineGlows and ship.navLights do not exist
NoEffects == [ glows |-> << >>, navLights |-> << >> ]

\* the ship as line 30 leaves it, without createSpaceship: mesh is null
ShipInitNoMesh ==
    [ mesh         |-> "null",
      velocity     |-> Zero3,
      acceleration |-> 0,
      speedMode    |-> 1,
      rotation     |-> Zero3,
      angles       |-> [x |-> DZero, y |-> DZero, z |-> DZero],
      position     |-> Zero3 ]

\* const ship = {...}; ship.mesh = new THREE.Group(); position.set(0, 0, 0)
ShipInit ==
    [ mesh         |-> "group",
      velocity     |-> Zero3,
      acceleration |-> 0,
      speedMode    |-> 1,
      rotation     |-> Zero3,
      angles       |-> [x |-> DZero, y |-> DZero, z |-> DZero],
      position     |-> Zero3 ]

\* createPlanets storing the orbit on the mesh as well, as createAsteroidBelt
\* does for an asteroid
PlanetInitWithUserData(n, angle) ==
    [ angle    |-> angle,
      distance |-> solarSystem[n].distance,
      speed    |-> solarSystem[n].speed,
      position |-> Vec(solarSystem[n].distance, 0, 0),
      userData |-> [ angle    |-> angle,
                     distance |-> solarSystem[n].distance,
                     speed    |-> solarSystem[n].speed ] ]

\* createPlanets: the mesh at (distance, 0, 0), the angle random
PlanetInit(n, angle) ==
    [ angle    |-> angle,
      distance |-> solarSystem[n].distance,
      speed    |-> solarSystem[n].speed,
      position |-> Vec(solarSystem[n].distance, 0, 0) ]

\* createMoon(planet): beside the planet, the angle random
MoonInit(parent, parentPos, angle) ==
    [ parent   |-> parent,
      distance |-> MoonDistance,
      angle    |-> angle,
      speed    |-> MoonSpeed,
      position |-> Vec(parentPos.x + MoonDistance, 0, 0) ]

\* createRings(planet): rings.position.copy(planet.position)
RingsInit(planetPos) == [ position |-> planetPos ]

\* createAsteroidBelt: one asteroid from its four random draws
AsteroidInit(d) ==
    [ position |-> Vec(TMul(Cos(d.angle), d.distance),
                       d.height,
                       TMul(Sin(d.angle), d.distance)),
      userData |-> [angle |-> d.angle, distance |-> d.distance, speed |-> d.speed] ]

\* values Math.random() * Math.PI * 2 may take
StartAngles == { 0, 25000 }

\* values the four draws of the first asteroid may take
AsteroidDraws ==
    { [angle |-> 0,     distance |-> 13000, height |-> -1500, speed |-> 10],
      [angle |-> 30000, distance |-> 16900, height |-> 1200,  speed |-> 26] }

\* the draws of asteroid i, when the first asteroid drew d
DrawOf(d, i) ==
    [ angle    |-> (d.angle + 9000 * (i - 1)) % TwoPi,
      distance |-> d.distance + 30 * (i - 1),
      height   |-> d.height + 100 * (i - 1),
      speed    |-> d.speed + (i - 1) ]

PlanetIndex(n) == CHOOSE i \in 1..Len(PlanetNames) : PlanetNames[i] = n

\* The random draws of createSolarSystem: the planets draw a, 2a, 3a, ...
\* (mod 2 pi), the moon 9a, and the asteroids the draws DrawOf(d, i).
InitWorld(angles, draws) ==
    \E a \in angles, d \in draws :
        /\ planets = [n \in PlanetSet |-> PlanetInit(n, (a * PlanetIndex(n)) % TwoPi)]
        /\ moons = [i \in {1} |->
                        MoonInit("earth", planets["earth"].position, (a * 9) % TwoPi)]
        /\ rings = [n \in {q \in PlanetSet : solarSystem[q].hasRings} |->
                        RingsInit(planets[n].position)]
        /\ asteroids = [i \in 1..NumAsteroids |-> AsteroidInit(DrawOf(d, i))]
        /\ start = [ planets   |-> [n \in PlanetSet |-> planets[n].angle],
                     moons     |-> [i \in {1} |-> moons[i].angle],
                     asteroids |-> [i \in 1..NumAsteroids |-> asteroids[i].userData.angle] ]
        /\ ticks = 0

\* The state when animate() is first called (line 1009) and has made its
\* requestAnimationFrame call: no listener has run yet.
InitProgram ==
    /\ keys = {}
    /\ mouse = [isDown |-> FALSE]
    /\ ship = ShipInit
    /\ camera = [position |-> CameraStart, target |-> ship.position]
    /\ ui = [speed |-> 0, mode |-> 0, position |-> Zero3,
             distanceFromSun |-> 0, nearest |-> "none"]
    /\ load = "pending"
    /\ shipInScene = 0
    /\ pc = 1
    /\ frame = 1
    /\ raf = 1
    /\ moves = 0
    /\ pre = ShipInit
    /\ done = << >>
    /\ now = 0
    /\ effects = NoEffects

Init == InitProgram /\ InitWorld(StartAngles, AsteroidDraws)

(***************************************************************************)
(* Listeners: lines 686-730.  A listener runs only between two frames.     *)
(***************************************************************************)

Idle == pc = 0

\* a keydown listener that applies the thrust itself instead of leaving it
\* to the next frame
KeyDownThrusts(c) ==
    /\ Idle
    /\ c \notin keys
    /\ keys' = keys \cup {c}
    /\ ship' = [ship EXCEPT !.acceleration =
                    IF c = "KeyW" THEN ForwardThrust * ship.speedMode
                    ELSE ship.acceleration]
    /\ UNCHANGED << mouse, camera, ui, pc, frame, raf, moves, pre, done, world >>

\* an edge-triggered keydown listener: the press itself turns the ship
KeyDownTurns(c) ==
    /\ Idle
    /\ c \notin keys
    /\ keys' = keys \cup {c}
    /\ ship' = [ship EXCEPT !.rotation.y =
                    IF c = "KeyA" THEN @ + rotationSpeed ELSE @]
    /\ UNCHANGED << mouse, camera, ui, pc, frame, raf, moves, pre, done, world >>

\* keydown: keys[e.code] = true
KeyDown(c) ==
    /\ Idle
    /\ c \notin keys
    /\ keys' = keys \cup {c}
    /\ UNCHANGED << mouse, ship, camera, ui, pc, frame, raf, moves, pre, done, world >>

\* keyup: keys[e.code] = false
KeyUp(c) ==
    /\ Idle
    /\ c \in keys
    /\ keys' = keys \ {c}
    /\ UNCHANGED << mouse, ship, camera, ui, pc, frame, raf, moves, pre, done, world >>

\* mousedown: only button 0 sets the flag
MouseDown(b) ==
    /\ Idle
    /\ mouse' = IF b = 0 THEN [mouse EXCEPT !.isDown = TRUE] ELSE mouse
    /\ UNCHANGED << keys, ship, camera, ui, pc, frame, raf, moves, pre, done, world >>

\* mouseup: only button 0 clears the flag
MouseUp(b) ==
    /\ Idle
    /\ mouse' = IF b = 0 THEN [mouse EXCEPT !.isDown = FALSE] ELSE mouse
    /\ UNCHANGED << keys, ship, camera, ui, pc, frame, raf, moves, pre, done, world >>

\* the mousemove listener without its clamp of the pitch
DraggedUnclamped(s, mx, my) ==
    [s EXCEPT !.rotation.y = s.rotation.y - MouseStep * mx,
              !.rotation.x = s.rotation.x - MouseStep * my,
              !.angles.y = DSub(s.angles.y, DTimes(mx, MouseScaleD)),
              !.angles.x = DSub(s.angles.x, DTimes(my, MouseScaleD))]

\* the body of the mousemove listener under if (mouse.isDown)
Dragged(s, mx, my) ==
    [s EXCEPT !.rotation.y = s.rotation.y - MouseStep * mx,
              !.rotation.x = ClampPitch(s.rotation.x - MouseStep * my),
              !.angles.y = DSub(s.angles.y, DTimes(mx, MouseScaleD)),
              !.angles.x = DClampPitch(DSub(s.angles.x, DTimes(my, MouseScaleD)))]

\* the mousemove listener without its test of mouse.isDown
MouseMoveUngated(mx, my) ==
    /\ Idle
    /\ moves < MaxMoves
    /\ moves' = moves + 1
    /\ ship' = Dragged(ship, mx, my)
    /\ UNCHANGED << keys, mouse, camera, ui, pc, frame, raf, pre, done, world >>

\* mousemove
MouseMove(mx, my) ==
    /\ Idle
    /\ moves < MaxMoves
    /\ moves' = moves + 1
    /\ ship' = IF mouse.isDown THEN Dragged(ship, mx, my) ELSE ship
    /\ UNCHANGED << keys, mouse, camera, ui, pc, frame, raf, pre, done, world >>

\* lines 59-92: the model has loaded; it goes into the ship group and the
\* group into the scene
OnLoad ==
    /\ Idle
    /\ load = "pending"
    /\ load' = "loaded"
    /\ shipInScene' = shipInScene + 1
    /\ UNCHANGED << keys, mouse, ship, camera, ui, pc, frame, raf, moves, pre, done,
                    planets, moons, asteroids, rings, ticks, start, now, effects >>

\* an error callback that only logs: no createProceduralSpaceship, so the
\* ship group never reaches the scene
OnErrorNoFallback ==
    /\ Idle
    /\ load = "pending"
    /\ load' = "failed"
    /\ UNCHANGED << keys, mouse, ship, camera, ui, pc, frame, raf, moves, pre, done,
                    planets, moons, asteroids, rings, ticks, start, shipInScene,
                    now, effects >>

\* lines 98-104 and 108-390: the load has failed; createProceduralSpaceship
\* builds the ship and adds the group to the scene
OnError ==
    /\ Idle
    /\ load = "pending"
    /\ load' = "failed"
    /\ shipInScene' = shipInScene + 1
    /\ UNCHANGED << keys, mouse, ship, camera, ui, pc, frame, raf, moves, pre, done,
                    planets, moons, asteroids, rings, ticks, start, now, effects >>

(***************************************************************************)
(* The frame loop: lines 734-756.  animate() runs to completion; pc walks  *)
(* through AnimateBody and no listener runs until it is back at 0.         *)
(***************************************************************************)

At(stage) == pc \in 1..Len(AnimateBody) /\ AnimateBody[pc] = stage

Advance ==
    /\ pc' = IF pc = Len(AnimateBody) THEN 0 ELSE pc + 1
    /\ done' = Append(done, AnimateBody[pc])

\* animate without line 737: the callback runs once and asks for no other
AnimateOnce(limit) ==
    /\ Idle
    /\ raf > 0
    /\ frame < limit
    /\ raf' = raf - 1
    /\ frame' = frame + 1
    /\ pc' = 1
    /\ moves' = 0
    /\ pre' = ship
    /\ done' = << >>
    /\ UNCHANGED << keys, mouse, ship, camera, ui, world >>

\* the browser calls animate: requestAnimationFrame(animate) comes first
Animate(limit) ==
    /\ Idle
    /\ raf > 0
    /\ frame < limit
    /\ raf' = (raf - 1) + 1
    /\ frame' = frame + 1
    /\ pc' = 1
    /\ moves' = 0
    /\ pre' = ship
    /\ done' = << >>
    /\ UNCHANGED << keys, mouse, ship, camera, ui, world >>

\* lines 769-771 with a fourth if: Digit4 asks for a mode 4
ModeAfterDigit4(mode, k) ==
    LET m1 == IF "Digit1" \in k THEN 1 ELSE mode
        m2 == IF "Digit2" \in k THEN 2 ELSE m1
        m3 == IF "Digit3" \in k THEN 3 ELSE m2
    IN  IF "Digit4" \in k THEN 4 ELSE m3

\* lines 769-771 as an else-if chain: the lowest digit held wins
ModeAfterLowestWins(mode, k) ==
    IF "Digit1" \in k THEN 1
    ELSE IF "Digit2" \in k THEN 2
    ELSE IF "Digit3" \in k THEN 3
    ELSE mode

\* lines 769-771: three independent ifs, in this order
ModeAfter(mode, k) ==
    LET m1 == IF "Digit1" \in k THEN 1 ELSE mode
        m2 == IF "Digit2" \in k THEN 2 ELSE m1
    IN  IF "Digit3" \in k THEN 3 ELSE m2

\* lines 777-786 with the two branches exchanged: backward beats forward
AccelerationForBackwardFirst(mode, k) ==
    IF "KeyS" \in k THEN -(BackwardThrust * mode)
    ELSE IF "KeyW" \in k THEN ForwardThrust * mode
    ELSE 0

\* lines 777-786 with thrusts of 5 and 3 for 0.5 and 0.3
AccelerationForTenfold(mode, k) ==
    IF "KeyW" \in k THEN 10 * ForwardThrust * mode
    ELSE IF "KeyS" \in k THEN -(10 * BackwardThrust * mode)
    ELSE 0

\* lines 777-786
AccelerationFor(mode, k) ==
    IF "KeyW" \in k THEN ForwardThrust * mode
    ELSE IF "KeyS" \in k THEN -(BackwardThrust * mode)
    ELSE 0

\* lines 789-802 with the clamp applied after each step of the pitch
AnglesAfterClampEach(ang, k) ==
    LET y1 == IF "KeyA" \in k THEN DAdd(ang.y, RotationSpeedD) ELSE ang.y
        y2 == IF "KeyD" \in k THEN DSub(y1, RotationSpeedD) ELSE y1
        z1 == IF "KeyQ" \in k THEN DAdd(ang.z, RotationSpeedD) ELSE ang.z
        z2 == IF "KeyE" \in k THEN DSub(z1, RotationSpeedD) ELSE z1
        x1 == IF "Space" \in k
                 THEN DClampPitch(DAdd(ang.x, RotationSpeedD)) ELSE ang.x
        x2 == IF "ShiftLeft" \in k
                 THEN DClampPitch(DSub(x1, RotationSpeedD)) ELSE x1
    IN  [x |-> x2, y |-> y2, z |-> z2]

\* lines 789-802 on the doubles: each += and -= rounds, the clamp comes last
AnglesAfter(ang, k) ==
    LET y1 == IF "KeyA" \in k THEN DAdd(ang.y, RotationSpeedD) ELSE ang.y
        y2 == IF "KeyD" \in k THEN DSub(y1, RotationSpeedD) ELSE y1
        z1 == IF "KeyQ" \in k THEN DAdd(ang.z, RotationSpeedD) ELSE ang.z
        z2 == IF "KeyE" \in k THEN DSub(z1, RotationSpeedD) ELSE z1
        x1 == IF "Space" \in k THEN DAdd(ang.x, RotationSpeedD) ELSE ang.x
        x2 == IF "ShiftLeft" \in k THEN DSub(x1, RotationSpeedD) ELSE x1
    IN  [x |-> DClampPitch(x2), y |-> y2, z |-> z2]

\* lines 789-802: yaw, roll, pitch and the clamp of the pitch
RotationAfter(rot, k) ==
    LET y1 == IF "KeyA" \in k THEN rot.y + rotationSpeed ELSE rot.y
        y2 == IF "KeyD" \in k THEN y1 - rotationSpeed ELSE y1
        z1 == IF "KeyQ" \in k THEN rot.z + rotationSpeed ELSE rot.z
        z2 == IF "KeyE" \in k THEN z1 - rotationSpeed ELSE z1
        x1 == IF "Space" \in k THEN rot.x + rotationSpeed ELSE rot.x
        x2 == IF "ShiftLeft" \in k THEN x1 - rotationSpeed ELSE x1
    IN  Vec(ClampPitch(x2), y2, z2)

\* handleInput without the final else: the acceleration of the last frame stays
HandleInputKeepsAcceleration(s, k) ==
    LET mode == ModeAfter(s.speedMode, k)
    IN  [s EXCEPT !.speedMode = mode,
                  !.acceleration = IF "KeyW" \in k \/ "KeyS" \in k
                                   THEN AccelerationFor(mode, k)
                                   ELSE s.acceleration,
                  !.rotation = RotationAfter(s.rotation, k),
                  !.angles = AnglesAfter(s.angles, k)]

\* handleInput reading the speed multiplier before lines 769-771 have run
HandleInputModeLate(s, k) ==
    [s EXCEPT !.speedMode = ModeAfter(s.speedMode, k),
              !.acceleration = AccelerationFor(s.speedMode, k),
              !.rotation = RotationAfter(s.rotation, k),
              !.angles = AnglesAfter(s.angles, k)]

\* handleInput as a function of the ship and the keys held
HandleInputResult(s, k) ==
    LET mode == ModeAfter(s.speedMode, k)
    IN  [s EXCEPT !.speedMode = mode,
                  !.acceleration = AccelerationFor(mode, k),
                  !.rotation = RotationAfter(s.rotation, k),
                  !.angles = AnglesAfter(s.angles, k)]

\* lines 760-803; line 764 reads ship.mesh.quaternion, which throws when
\* ship.mesh is null: the frame ends there, as in Fail
HandleInput ==
    /\ At("handleInput")
    /\ IF ship.mesh = "null"
         THEN pc' = 0 /\ UNCHANGED << ship, done >>
         ELSE ship' = HandleInputResult(ship, keys) /\ Advance
    /\ UNCHANGED << keys, mouse, camera, ui, frame, raf, moves, pre, world >>

\* lines 809-810 starting from (0, 0, 1): forward taken along +z
ForwardAlongPlusZ(rot) == ApplyQuaternion(Vec(0, 0, TrigScale), rot)

\* lines 809-810: the unit vector the ship points along, in TrigScale
Forward(rot) == ApplyQuaternion(Vec(0, 0, -TrigScale), rot)

\* the velocity step without the drag
AcceleratedNoDrag(s) ==
    VAdd(s.velocity, VScale(Forward(s.rotation), s.acceleration, TrigScale))

\* the velocity step along the forward vector that handleInput computed at
\* its top (line 766), before this frame's rotation input
AcceleratedStaleForward(s) ==
    LET accelVector == VScale(Forward(pre.rotation), s.acceleration, TrigScale)
    IN  VScale(VAdd(s.velocity, accelVector), DragPercent, 100)

\* lines 813-820: add the acceleration along forward, then the drag
Accelerated(s) ==
    LET accelVector == VScale(Forward(s.rotation), s.acceleration, TrigScale)
    IN  VScale(VAdd(s.velocity, accelVector), DragPercent, 100)

\* lines 823-830 without the test of the speed: normalize and rescale always
CappedUnguarded(v, mode) ==
    VScale(Normalize(v), maxSpeed * mode, TrigScale)

\* lines 823-830: the speed cap of the current mode
Capped(v, mode) ==
    LET currentSpeed == Length(v)
        cap == maxSpeed * mode
    IN  IF currentSpeed > cap THEN VScale(Normalize(v), cap, TrigScale) ELSE v

\* updateShip moving the ship before the drag and the cap are applied
UpdateShipMovesEarly(s) ==
    LET raw == VAdd(s.velocity,
                    VScale(Forward(s.rotation), s.acceleration, TrigScale))
    IN  [s EXCEPT !.velocity = Capped(Accelerated(s), s.speedMode),
                  !.position = VAdd(s.position, raw)]

\* lines 809-834: updateShip as a function of the ship
UpdateShipResult(s) ==
    LET v == Capped(Accelerated(s), s.speedMode)
    IN  [s EXCEPT !.velocity = v, !.position = VAdd(s.position, v)]

\* Math.abs
Abs(a) == IF a < 0 THEN -a ELSE a

\* line 839: Math.abs(ship.acceleration) / 2.0, in 1/10000
EngineIntensity(a) == Abs(a) * 50

\* an intensity or a sine scaled by a number of tenths or hundredths
Part(q, num, den) == RDiv(q * num, den)

\* color.setHSL(h, s, l), in 1/10000
HSL(h, s, l) == [h |-> h, s |-> s, l |-> l]

\* lines 843-862: the outer glow of the given index, at time = Date.now() * 0.005
OuterGlow(a, time, index) ==
    LET i == EngineIntensity(a)
    IN  [ opacity |-> 2000 + Part(i, 6, 10) + Part(Sin(time + index * TrigScale), 1, 10),
          scale   |-> 8000 + Part(i, 5, 10)
                          + Part(Sin(time * 2 + index * TrigScale), 1, 10),
          color   |-> IF a > 0 THEN HSL(6000, 10000 - Part(i, 3, 10), 5000 + Part(i, 3, 10))
                      ELSE IF a < 0 THEN HSL(0, 10000, 5000 + Part(i, 3, 10))
                      ELSE HSL(6000, 8000, 3000) ]

\* lines 865-881: the inner glow of the given index
InnerGlow(a, time, index) ==
    LET i == EngineIntensity(a)
    IN  [ opacity |-> 4000 + Part(i, 5, 10)
                          + Part(Sin(time * 3 + index * TrigScale), 2, 10),
          scale   |-> 9000 + Part(i, 3, 10)
                          + Part(Sin(time * 4 + index * TrigScale), 15, 100),
          color   |-> IF a > 0 THEN HSL(6000, 2000, 8000 + Part(i, 2, 10))
                      ELSE IF a < 0 THEN HSL(1000, 8000, 7000 + Part(i, 3, 10))
                      ELSE HSL(6000, 1000, 6000) ]

\* lines 886-891: the opacity of the nav light of the given index, at
\* blinkTime = Date.now() * 0.003
NavLight(blinkTime, index) ==
    IF Sin(blinkTime + index * Pi) > 5000 THEN 10000 ELSE 3000

\* the effects computed from the speed instead of the acceleration
EffectsFromSpeed(s, t) ==
    LET a == Length(s.velocity)
    IN  [ glows |-> << OuterGlow(a, t * 50, 0), OuterGlow(a, t * 50, 1),
                       InnerGlow(a, t * 50, 0), InnerGlow(a, t * 50, 1) >>,
          navLights |-> << NavLight(t * 30, 0), NavLight(t * 30, 1),
                           NavLight(t * 30, 2) >> ]

\* lines 837-892: what updateShip sets on the four engine glows and the three
\* nav lights of ship s when Date.now() is t
EffectsAfter(s, t) ==
    LET a == s.acceleration
    IN  [ glows |-> << OuterGlow(a, t * 50, 0), OuterGlow(a, t * 50, 1),
                       InnerGlow(a, t * 50, 0), InnerGlow(a, t * 50, 1) >>,
          navLights |-> << NavLight(t * 30, 0), NavLight(t * 30, 1),
                           NavLight(t * 30, 2) >> ]

\* lines 837 and 885: ship.engineGlows and ship.navLights exist once
\* createProceduralSpaceship has run, which only the error callback calls
HasGlows == load = "failed"

UpdateShip ==
    /\ At("updateShip")
    /\ ship' = UpdateShipResult(ship)
    /\ effects' = IF HasGlows THEN EffectsAfter(ship', now) ELSE effects
    /\ Advance
    /\ UNCHANGED << keys, mouse, camera, ui, frame, raf, moves, pre,
                    planets, moons, asteroids, rings, ticks, start,
                    load, shipInScene, now >>

\* the camera offset added without being rotated
CameraAfterUnrotated(cam, s) ==
    [ position |-> VAdd(s.position, CameraOffset),
      target   |-> s.position ]

\* lines 899-908: the camera behind the ship, looking at it
CameraAfter(cam, s) ==
    [ position |-> VAdd(s.position, ApplyQuaternion(CameraOffset, s.rotation)),
      target   |-> s.position ]

UpdateCamera ==
    /\ At("updateCamera")
    /\ camera' = CameraAfter(camera, ship)
    /\ Advance
    /\ UNCHANGED << keys, mouse, ship, ui, frame, raf, moves, pre, world >>

\* pos.distanceTo(planet.mesh.position), squared, in whole units
DistanceSq(p, q) ==
    LET dx == Round(p.x) - Round(q.x)
        dy == Round(p.y) - Round(q.y)
        dz == Round(p.z) - Round(q.z)
    IN  dx * dx + dy * dy + dz * dz

\* lines 924-935: the first planet of the list at the least distance
RECURSIVE NearestFrom(_, _, _, _, _)
NearestFrom(i, pos, pl, best, bestSq) ==
    IF i > Len(PlanetNames) THEN best
    ELSE LET d == DistanceSq(pos, pl[PlanetNames[i]].position)
         IN  IF best = "Space" \/ d < bestSq
             THEN NearestFrom(i + 1, pos, pl, PlanetNames[i], d)
             ELSE NearestFrom(i + 1, pos, pl, best, bestSq)

\* lines 915-950: what updateUI shows
UIAfter(s, pl) ==
    [ speed           |-> Round(Length(s.velocity)),
      mode            |-> s.speedMode,
      position        |-> Vec(Round(s.position.x), Round(s.position.y),
                              Round(s.position.z)),
      distanceFromSun |-> ISqrt(DistanceSq(s.position, Zero3)),
      nearest         |-> NearestFrom(1, s.position, pl, "Space", 0) ]

UpdateUI ==
    /\ At("updateUI")
    /\ ui' = UIAfter(ship, planets)
    /\ Advance
    /\ UNCHANGED << keys, mouse, ship, camera, frame, raf, moves, pre, world >>

\* a planet whose angle advances twice in one call
PlanetStepTwice(p) ==
    LET angle == p.angle + p.speed + p.speed
    IN  [p EXCEPT !.angle = angle,
                  !.position.x = TMul(Cos(angle), p.distance),
                  !.position.z = TMul(Sin(angle), p.distance)]

\* lines 959-961: one planet
PlanetStep(p) ==
    LET angle == p.angle + p.speed
    IN  [p EXCEPT !.angle = angle,
                  !.position.x = TMul(Cos(angle), p.distance),
                  !.position.z = TMul(Sin(angle), p.distance)]

\* lines 957-968, the planets
PlanetsAfter(pl) == [n \in DOMAIN pl |-> PlanetStep(pl[n])]

\* the rings copied before the planet has moved
RingsAfterLagging(ri, before, after) ==
    [n \in DOMAIN ri |-> [ri[n] EXCEPT !.position = before[n].position]]

\* lines 964-966: inside the planets loop, after the planet has moved
RingsAfter(ri, before, after) ==
    [n \in DOMAIN ri |-> [ri[n] EXCEPT !.position = after[n].position]]

\* lines 972-974: one moon about the position of its parent mesh
MoonStep(m, parentPos) ==
    LET angle == m.angle + m.speed
    IN  [m EXCEPT !.angle = angle,
                  !.position.x = parentPos.x + TMul(Cos(angle), m.distance),
                  !.position.z = parentPos.z + TMul(Sin(angle), m.distance)]

\* the moons loop run ahead of the planets loop
MoonsAfterLagging(mo, before, after) ==
    [i \in DOMAIN mo |-> MoonStep(mo[i], before[mo[i].parent].position)]

\* lines 971-975: the moons loop runs after the planets loop; before and
\* after are the planets as the planets loop found and left them
MoonsAfter(mo, before, after) ==
    [i \in DOMAIN mo |-> MoonStep(mo[i], after[mo[i].parent].position)]

\* an asteroid placed by the angle it had before the step
AsteroidStepStale(c) ==
    LET angle == c.userData.angle + c.userData.speed
    IN  [c EXCEPT !.userData.angle = angle,
                  !.position.x = TMul(Cos(c.userData.angle), c.userData.distance),
                  !.position.z = TMul(Sin(c.userData.angle), c.userData.distance)]

\* lines 979-983: one scene child with userData.angle
AsteroidStep(c) ==
    LET angle == c.userData.angle + c.userData.speed
    IN  [c EXCEPT !.userData.angle = angle,
                  !.position.x = TMul(Cos(angle), c.userData.distance),
                  !.position.z = TMul(Sin(angle), c.userData.distance)]

\* line 979: child.userData && child.userData.angle !== undefined
HasOrbitData(c) == "userData" \in DOMAIN c /\ "angle" \in DOMAIN c.userData

\* lines 979-983: what the scan of scene.children does with one child
ScanStep(c) == IF HasOrbitData(c) THEN AsteroidStep(c) ELSE c

\* lines 978-984 over the children of one kind
ScanOf(f) == [i \in DOMAIN f |-> ScanStep(f[i])]

\* lines 978-984
AsteroidsAfter(as) == [i \in DOMAIN as |-> ScanStep(as[i])]

\* lines 955-990: the planets loop, the moons loop, then the scan of
\* scene.children, which holds the planets, the moon, the rings, the
\* asteroids and, once a load callback has run, the ship group
UpdateSolarSystem ==
    /\ At("updateSolarSystem")
    /\ LET moved == PlanetsAfter(planets)
       IN  /\ planets' = ScanOf(moved)
           /\ rings' = ScanOf(RingsAfter(rings, planets, moved))
           /\ moons' = ScanOf(MoonsAfter(moons, planets, moved))
    /\ asteroids' = AsteroidsAfter(asteroids)
    /\ ship' = IF shipInScene > 0 THEN ScanStep(ship) ELSE ship
    /\ ticks' = ticks + 1
    /\ Advance
    /\ UNCHANGED << keys, mouse, camera, ui, frame, raf, moves, pre, start,
                    load, shipInScene, now, effects >>

\* renderer.render(scene, camera): draws, changes nothing
Render ==
    /\ At("render")
    /\ Advance
    /\ UNCHANGED << keys, mouse, ship, camera, ui, frame, raf, moves, pre, world >>

\* time passes between two frames: Date.now() grows by a frame period
Tick ==
    /\ Idle
    /\ now < MaxClock
    /\ now' = now + 17
    /\ UNCHANGED << keys, mouse, ship, camera, ui, pc, frame, raf, moves, pre, done,
                    planets, moons, asteroids, rings, ticks, start, load,
                    shipInScene, effects >>

\* a stage throws: the exception leaves animate(), the stages after it do not
\* run in this frame, and the callback line 737 registered stays registered
Fail ==
    /\ pc \in 1..Len(AnimateBody)
    /\ pc' = 0
    /\ UNCHANGED << keys, mouse, ship, camera, ui, frame, raf, moves, pre, done,
                    world >>

FrameStep(limit) ==
    \/ Animate(limit)
    \/ HandleInput
    \/ UpdateShip
    \/ UpdateCamera
    \/ UpdateUI
    \/ UpdateSolarSystem
    \/ Render

(***************************************************************************)
(* Specifications                                                          *)
(***************************************************************************)

\* mouse buttons an event may carry
Buttons == { 0, 2 }

\* the general specification: thrust, a mouse drag, the end of the model
\* load, and every random draw
Next ==
    \/ FrameStep(MaxFrames)
    \/ \E c \in { "KeyW" } : KeyDown(c)
    \/ \E c \in { "KeyW" } : KeyUp(c)
    \/ \E b \in Buttons : MouseDown(b)
    \/ \E b \in Buttons : MouseUp(b)
    \/ \E d \in { <<15, -40>> } : MouseMove(d[1], d[2])
    \/ OnLoad
    \/ OnError

Spec == Init /\ [][Next]_vars

\* one outcome of the random draws
InitFixed ==
    /\ InitProgram
    /\ InitWorld({25000}, { [angle |-> 30000, distance |-> 16900,
                             height |-> 1200, speed |-> 26] })

\* flight: thrust, yaw and the speed modes
FlightKeys == { "KeyW", "KeyS", "KeyA", "Digit1", "Digit3", "KeyX" }

NextFlight ==
    \/ FrameStep(FlightFrames)
    \/ \E c \in FlightKeys : KeyDown(c)
    \/ \E c \in FlightKeys : KeyUp(c)

SpecFlight == InitFixed /\ [][NextFlight]_vars

\* pitch: the two pitch keys and a vertical mouse drag
PitchKeys == { "Space", "ShiftLeft" }

NextPitch ==
    \/ FrameStep(PitchFrames)
    \/ \E c \in PitchKeys : KeyDown(c)
    \/ \E c \in PitchKeys : KeyUp(c)
    \/ \E b \in Buttons : MouseDown(b)
    \/ \E b \in Buttons : MouseUp(b)
    \/ \E my \in { -900, 4, 900 } : MouseMove(0, my)

SpecPitch == InitFixed /\ [][NextPitch]_vars

\* camera: thrust, yaw, roll and pitch
CameraKeys == { "KeyW", "KeyA", "KeyQ", "Space" }

NextCamera ==
    \/ FrameStep(CameraFrames)
    \/ \E c \in CameraKeys : KeyDown(c)
    \/ \E c \in CameraKeys : KeyUp(c)

SpecCamera == InitFixed /\ [][NextCamera]_vars

\* sustained thrust: the ship is turned and the keys are pressed after the
\* first frame, then held while the frames run
ThrustKeys == { "KeyW", "Digit2", "Digit3" }

NextThrust ==
    \/ FrameStep(ThrustFrames)
    \/ \E c \in ThrustKeys : frame = 1 /\ KeyDown(c)
    \/ \E b \in {0} : frame = 1 /\ MouseDown(b)
    \/ \E d \in { <<2500, -300>> } : frame = 1 /\ MouseMove(d[1], d[2])

SpecThrust == InitFixed /\ [][NextThrust]_vars

\* speed modes: the three mode keys, a digit key that is no mode, and thrust
ModeKeys == { "Digit1", "Digit2", "Digit3", "Digit4", "KeyW", "KeyS" }

NextMode ==
    \/ FrameStep(ModeFrames)
    \/ \E c \in ModeKeys : KeyDown(c)
    \/ \E c \in ModeKeys : KeyUp(c)

SpecMode == InitFixed /\ [][NextMode]_vars

\* the loop: frames whose stages may throw, and a key.  The browser calls
\* every registered callback, and animate() runs to completion or throws.
LoopKeys == { "KeyW" }

NextLoop ==
    \/ FrameStep(LoopFrames)
    \/ Fail
    \/ \E c \in LoopKeys : KeyDown(c)
    \/ \E c \in LoopKeys : KeyUp(c)

\* the progress of the loop, as pc and frame show it: the browser calls the
\* registered callback, and a stage that has been reached runs
LoopStep ==
    \/ /\ Idle
       /\ raf > 0
       /\ frame < LoopFrames
       /\ pc' = 1
       /\ frame' = frame + 1
    \/ /\ pc \in 1..Len(AnimateBody)
       /\ pc' = IF pc = Len(AnimateBody) THEN 0 ELSE pc + 1
       /\ frame' = frame

SpecLoop ==
    /\ InitFixed
    /\ [][NextLoop]_vars
    /\ WF_<<pc, frame>>(LoopStep)

\* effects: thrust either way, a speed mode, the end of the model load and
\* the clock
EffectKeys == { "KeyW", "KeyS", "KeyA", "Digit3" }

NextEffects ==
    \/ FrameStep(EffectFrames)
    \/ \E c \in EffectKeys : KeyDown(c)
    \/ \E c \in EffectKeys : KeyUp(c)
    \/ OnLoad
    \/ OnError
    \/ Tick

SpecEffects == InitFixed /\ [][NextEffects]_vars

\* the speed cap: keys are pressed after the first frame and held while the
\* frames run; in the last frames any key may be pressed or released again
CapKeys == { "KeyW", "KeyS", "KeyA", "Digit1", "Digit3" }

Steering == frame = 1 \/ frame >= CapFrames - 2

NextCap ==
    \/ FrameStep(CapFrames)
    \/ \E c \in CapKeys : Steering /\ KeyDown(c)
    \/ \E c \in CapKeys : frame >= CapFrames - 2 /\ KeyUp(c)

SpecCap == InitFixed /\ [][NextCap]_vars

\* the rotation pairs: the six rotation keys, pressed at any time with at
\* most MaxHeld of them held at once and released before the last frame, and
\* after the first frame a vertical drag long enough to reach either bound of
\* the pitch
PairKeys == { "KeyA", "KeyD", "KeyQ", "KeyE", "Space", "ShiftLeft" }

NextPairs ==
    \/ FrameStep(PairFrames)
    \/ \E c \in PairKeys : Cardinality(keys) < MaxHeld /\ KeyDown(c)
    \/ \E c \in PairKeys : frame = PairFrames - 1 /\ KeyUp(c)
    \/ frame = 1 /\ MouseDown(0)
    \/ \E my \in { -900, 900 } : frame = 1 /\ MouseMove(0, my)

SpecPairs == InitFixed /\ [][NextPairs]_vars

(***************************************************************************)
(* Properties                                                              *)
(***************************************************************************)

StageIndex(stage) == CHOOSE i \in 1..Len(AnimateBody) : AnimateBody[i] = stage

\* the stage was the last one to run
JustRan(stage) ==
    pc = (IF StageIndex(stage) = Len(AnimateBody) THEN 0 ELSE StageIndex(stage) + 1)

\* the stage has run in the frame that is running or has just ended
Ran(stage) == pc = 0 \/ pc > StageIndex(stage)

\* C1: once updateShip has run, the speed is at most maxSpeed * speedMode,
\* and the position it left is the position before plus that capped velocity.
C1_SpeedCapped ==
    /\ Ran("updateShip") => Length(ship.velocity) <= maxSpeed * ship.speedMode
    /\ JustRan("updateShip") => ship.position = VAdd(pre.position, ship.velocity)

\* C1: updateShip has run in a frame that switched from mode 3 to mode 1
\* under thrust, with the ship already moving
C1_Witness ==
    /\ JustRan("updateShip")
    /\ pre.speedMode = 3
    /\ ship.speedMode = 1
    /\ pre.velocity # Zero3
    /\ ship.acceleration # 0
    /\ ship.rotation.y # 0

\* C5: a frame with no control key held leaves rotation and speedMode as they
\* were, sets the acceleration to 0, multiplies each velocity component by
\* 0.98 and advances the position by the new velocity.
C5_IdleFrame ==
    (JustRan("updateShip") /\ keys \cap ControlKeys = {}) =>
        /\ ship.rotation = pre.rotation
        /\ ship.speedMode = pre.speedMode
        /\ ship.acceleration = 0
        /\ ship.velocity = VScale(pre.velocity, DragPercent, 100)
        /\ ship.position = VAdd(pre.position, ship.velocity)

\* C5: such a frame has run on a turned, moving ship that was under thrust,
\* with a key that is no control held
C5_Witness ==
    /\ JustRan("updateShip")
    /\ keys = { "KeyX" }
    /\ pre.velocity # Zero3
    /\ pre.acceleration # 0
    /\ pre.rotation.y # 0
    /\ pre.speedMode = 3

\* C2: whatever frames and mousemove events have run, the pitch
\* ship.mesh.rotation.x lies in [-pi/2, +pi/2].
C2_PitchInRange ==
    /\ ship.rotation.x >= -HalfPi
    /\ ship.rotation.x <= HalfPi

\* C2: handleInput has run with Space held on a ship that a mouse drag had
\* already pitched to the upper bound, and left it at the bound
C2_Witness ==
    /\ JustRan("handleInput")
    /\ "Space" \in keys
    /\ "ShiftLeft" \notin keys
    /\ mouse.isDown
    /\ pre.rotation.x = HalfPi
    /\ ship.rotation.x = HalfPi

IsPrefix(a, b) ==
    /\ Len(a) <= Len(b)
    /\ \A i \in 1..Len(a) : a[i] = b[i]

\* C3, as amended: the stages of a frame run in the order input, flight,
\* camera, UI, orbits, render; the orbital update of a frame comes after that
\* frame's camera update and UI readout and before its render.
C3_FrameOrder ==
    /\ IsPrefix(done, << "handleInput", "updateShip", "updateCamera",
                         "updateUI", "updateSolarSystem", "render" >>)
    /\ (pc = 0 => Len(done) = 6)
    /\ (JustRan("updateCamera") \/ JustRan("updateUI")) => ticks = frame - 1
    /\ JustRan("updateUI") => ui = UIAfter(ship, planets)
    /\ JustRan("render") => ticks = frame

\* C3: the UI readout of a later frame has run on a moving ship while the
\* orbital update of that frame is still to come
C3_Witness ==
    /\ JustRan("updateUI")
    /\ frame = 3
    /\ ticks = 2
    /\ ship.velocity # Zero3
    /\ done = << "handleInput", "updateShip", "updateCamera", "updateUI" >>

\* C3, as stated: input, flight, orbits, camera, then UI and render, so that
\* the orbital update of a frame precedes its camera update and UI readout.
C3_Original ==
    /\ IsPrefix(done, << "handleInput", "updateShip", "updateSolarSystem",
                         "updateCamera", "updateUI", "render" >>)
    /\ (JustRan("updateCamera") \/ JustRan("updateUI")) => ticks = frame

\* the speed at which thrust and drag balance, per unit of acceleration:
\* v = (v + a) * 0.98 at v = a * 0.98 / 0.02
TerminalFactor == DragPercent \div (100 - DragPercent)

\* 24.5 * m: the speed forward thrust in mode m tends to
TerminalSpeed(mode) == ForwardThrust * mode * TerminalFactor

\* forward thrust has been held in every frame since the ship was at rest
Thrusting == frame >= 2 /\ "KeyW" \in keys /\ Ran("updateShip")

\* C4, as amended: from rest, under forward thrust held in every frame with a
\* fixed orientation and mode m, the speed never decreases, never exceeds
\* 24.5 * m (up to one rounding step of the acceleration), has come within 3%
\* of it after ThrustFrames frames, and so stays far below maxSpeed * m.
C4_TerminalSpeed ==
    Thrusting =>
        /\ ship.speedMode = ModeAfter(1, keys)
        /\ Length(ship.velocity) >= Length(pre.velocity)
        /\ Length(ship.velocity) <= TerminalSpeed(ship.speedMode) + TerminalFactor
        /\ Length(ship.velocity) * 4 < maxSpeed * ship.speedMode
        /\ frame >= ThrustFrames =>
               Length(ship.velocity) * 100 >= TerminalSpeed(ship.speedMode) * 97

\* C4: the last frame has run under thrust in mode 2 on a turned ship, whose
\* speed has settled
C4_Witness ==
    /\ Thrusting
    /\ frame = ThrustFrames
    /\ ship.speedMode = 2
    /\ ship.rotation.y # 0
    /\ ship.rotation.x # 0
    /\ Length(ship.velocity) = Length(pre.velocity)
    /\ Length(ship.velocity) > 0

\* C4, as stated: under sustained forward thrust the speed approaches
\* maxSpeed * m; after ThrustFrames frames it is within a tenth of it.
C4_Original ==
    (Thrusting /\ frame >= ThrustFrames) =>
        Length(ship.velocity) * 10 >= maxSpeed * ship.speedMode * 9

\* where a body at the given angle and distance about a centre lies
OnOrbit(pos, centre, angle, distance) ==
    /\ pos.x = centre.x + TMul(Cos(angle), distance)
    /\ pos.z = centre.z + TMul(Sin(angle), distance)

\* C6: once updateSolarSystem has run, every moon lies on its orbit about the
\* position its parent planet has after that same call: the planets are
\* updated first and the moon reads the updated parent.
C6_MoonFollowsPlanet ==
    ticks >= 1 =>
        \A i \in DOMAIN moons :
            OnOrbit(moons[i].position, planets[moons[i].parent].position,
                    moons[i].angle, moons[i].distance)

\* C6: updateSolarSystem has just run a second time and moved both the earth
\* and its moon
C6_Witness ==
    /\ JustRan("updateSolarSystem")
    /\ ticks = 2
    /\ moons[1].parent = "earth"
    /\ planets["earth"].angle = start.planets["earth"] + 2 * planets["earth"].speed
    /\ planets["earth"].position.z # 0
    /\ moons[1].position.z # planets["earth"].position.z

\* C8: one call of updateSolarSystem adds the speed of every planet, moon and
\* asteroid to its angle once, puts x and z on the orbit of the new angle
\* about the parent (the origin for planets and asteroids) and leaves y,
\* distance and speed as they were.
C8_OrbitStep ==
    [][ ticks' # ticks =>
          /\ \A n \in DOMAIN planets :
                /\ planets'[n].angle = planets[n].angle + planets[n].speed
                /\ OnOrbit(planets'[n].position, Zero3,
                           planets'[n].angle, planets[n].distance)
                /\ planets'[n].position.y = planets[n].position.y
                /\ planets'[n].distance = planets[n].distance
                /\ planets'[n].speed = planets[n].speed
          /\ \A i \in DOMAIN moons :
                /\ moons'[i].angle = moons[i].angle + moons[i].speed
                /\ OnOrbit(moons'[i].position, planets'[moons[i].parent].position,
                           moons'[i].angle, moons[i].distance)
                /\ moons'[i].position.y = moons[i].position.y
                /\ moons'[i].distance = moons[i].distance
                /\ moons'[i].speed = moons[i].speed
          /\ \A i \in DOMAIN asteroids :
                /\ asteroids'[i].userData.angle =
                       asteroids[i].userData.angle + asteroids[i].userData.speed
                /\ OnOrbit(asteroids'[i].position, Zero3,
                           asteroids'[i].userData.angle, asteroids[i].userData.distance)
                /\ asteroids'[i].position.y = asteroids[i].position.y
                /\ asteroids'[i].userData.distance = asteroids[i].userData.distance
                /\ asteroids'[i].userData.speed = asteroids[i].userData.speed
      ]_vars

\* C8: the first call has run where the earth started at angle 0: its angle
\* is 0.01 and it lies about (90, 0, 0.9); the first asteroid keeps its height
C8_Witness ==
    /\ JustRan("updateSolarSystem")
    /\ ticks = 1
    /\ start.planets["earth"] = 0
    /\ planets["earth"].angle = 100
    /\ planets["earth"].position.z = 90
    /\ planets["earth"].position.x \in 8998..9000
    /\ asteroids[1].position.y = -1500
    /\ asteroids[1].userData.angle = 10

C10_OrbitDeterminism ==
    /\ ticks = IF Ran("updateSolarSystem") THEN frame ELSE frame - 1
    /\ \A n \in DOMAIN planets :
          /\ planets[n].angle = start.planets[n] + ticks * planets[n].speed
          /\ ticks >= 1 => OnOrbit(planets[n].position, Zero3,
                                   planets[n].angle, planets[n].distance)
    /\ \A i \in DOMAIN moons :
          moons[i].angle = start.moons[i] + ticks * moons[i].speed
    /\ \A i \in DOMAIN asteroids :
          /\ asteroids[i].userData.angle =
                 start.asteroids[i] + ticks * asteroids[i].userData.speed
          /\ OnOrbit(asteroids[i].position, Zero3,
                     asteroids[i].userData.angle, asteroids[i].userData.distance)

\* C10: three orbital updates have run in a run with thrust, a mouse drag
\* and a failed model load
C10_Witness ==
    /\ ticks = 3
    /\ load = "failed"
    /\ ship.velocity # Zero3
    /\ ship.rotation.x # 0
    /\ "KeyW" \in keys
    /\ start.planets["earth"] # 0

\* Vector3.sub
VSub(v, w) == Vec(v.x - w.x, v.y - w.y, v.z - w.z)

\* C7: once updateCamera has run, the camera is at the ship position plus the
\* offset (0, 3, 8) turned by the ship's rotation, at the length of the
\* offset from the ship, and looks at the ship position; in the first frame,
\* with the ship at the origin and unturned, it is at (0, 3, 8) looking at
\* (0, 0, 0), not where it was placed at creation.
C7_CameraFollows ==
    JustRan("updateCamera") =>
        /\ camera.position =
               VAdd(ship.position, ApplyQuaternion(Vec(0, 300, 800), ship.rotation))
        /\ camera.target = ship.position
        /\ Length(VSub(camera.position, ship.position)) \in 852..856
        /\ frame = 1 =>
               /\ ship.position = Zero3 /\ ship.rotation = Zero3
               /\ camera.position = Vec(0, 300, 800)
               /\ camera.target = Zero3

\* C7: updateCamera has run on a ship that has left the origin and is turned
\* about all three axes
C7_Witness ==
    /\ JustRan("updateCamera")
    /\ ship.position # Zero3
    /\ ship.rotation.x # 0
    /\ ship.rotation.y # 0
    /\ ship.rotation.z # 0
    /\ camera.position # VAdd(ship.position, Vec(0, 300, 800))

\* C11: once handleInput has run, the acceleration is 0.5 * speedMode if KeyW
\* is held, whether or not KeyS is held too; else -0.3 * speedMode if KeyS is
\* held; else 0.  It depends on the keys and the mode of this frame alone.
C11_Acceleration ==
    JustRan("handleInput") =>
        ship.acceleration =
            IF "KeyW" \in keys THEN 50 * ship.speedMode
            ELSE IF "KeyS" \in keys THEN -(30 * ship.speedMode)
            ELSE 0

\* C11: handleInput has run in mode 3 with both KeyW and KeyS held, after a
\* frame that left a backward acceleration
C11_Witness ==
    /\ JustRan("handleInput")
    /\ { "KeyW", "KeyS" } \subseteq keys
    /\ ship.speedMode = 3
    /\ pre.acceleration = -90
    /\ ship.acceleration = 150

\* the keys that ask for a speed mode
ModeRequests == { "Digit1", "Digit2", "Digit3" }

\* C12: speedMode is always 1, 2 or 3, and it changes only in handleInput and
\* only when Digit1, Digit2 or Digit3 is held: no other key, no listener and
\* no frame without a mode key held changes it.
C12_SpeedMode ==
    /\ [](ship.speedMode \in { 1, 2, 3 })
    /\ [][ ship'.speedMode # ship.speedMode =>
              /\ At("handleInput")
              /\ keys \cap ModeRequests # {} ]_vars

\* C12: handleInput has run with Digit4 and KeyW held and left the mode 2
\* that an earlier frame had set
C12_Witness ==
    /\ JustRan("handleInput")
    /\ keys = { "Digit4", "KeyW" }
    /\ pre.speedMode = 2
    /\ ship.speedMode = 2
    /\ ship.acceleration = 100

\* the mode the held keys ask for: the last of lines 769-771 that fires
RequestedMode(k) ==
    IF "Digit3" \in k THEN 3 ELSE IF "Digit2" \in k THEN 2 ELSE 1

\* C13: in a frame with a mode key held, speedMode is the requested mode, the
\* acceleration is the thrust of that mode, the velocity is the old velocity
\* plus that acceleration along forward, times 0.98, under the cap of that
\* mode; with no thrust held it is exactly the old velocity times 0.98.
C13_ModeBeforeThrust ==
    (JustRan("updateShip") /\ keys \cap ModeRequests # {}) =>
        LET m == RequestedMode(keys)
            a == IF "KeyW" \in keys THEN 50 * m
                 ELSE IF "KeyS" \in keys THEN -(30 * m) ELSE 0
            v == VScale(VAdd(pre.velocity,
                             VScale(Forward(pre.rotation), a, TrigScale)),
                        98, 100)
        IN  /\ ship.speedMode = m
            /\ ship.acceleration = a
            /\ Length(v) <= maxSpeed * m
            /\ ship.velocity = v
            /\ a = 0 => ship.velocity = VScale(pre.velocity, 98, 100)

\* C13: a frame has switched a moving ship from mode 1 to mode 3 under
\* forward thrust
C13_Witness ==
    /\ JustRan("updateShip")
    /\ { "Digit3", "KeyW" } \subseteq keys
    /\ pre.speedMode = 1
    /\ pre.velocity # Zero3
    /\ ship.speedMode = 3
    /\ ship.acceleration = 150

\* C14: updateShip normalizes the velocity only when the speed after the drag
\* is strictly above maxSpeed * speedMode, which is positive: at any speed up
\* to the cap, zero included, the velocity is left as the drag gave it; a
\* ship at rest with no thrust keeps velocity (0,0,0) and its position.
C14_NoZeroNormalize ==
    JustRan("updateShip") =>
        LET raw == VScale(VAdd(pre.velocity,
                               VScale(Forward(ship.rotation),
                                      ship.acceleration, TrigScale)),
                          98, 100)
            cap == 20000 * ship.speedMode
        IN  /\ cap > 0
            /\ Length(raw) <= cap => ship.velocity = raw
            /\ (pre.velocity = Zero3 /\ ship.acceleration = 0) =>
                   /\ ship.velocity = Zero3
                   /\ ship.position = pre.position

\* C14: updateShip has run on a turned ship at rest with no thrust, in a
\* frame after the first
C14_Witness ==
    /\ JustRan("updateShip")
    /\ frame >= 2
    /\ pre.velocity = Zero3
    /\ ship.acceleration = 0
    /\ ship.rotation.y # 0
    /\ ship.velocity = Zero3
    /\ ship.position = pre.position

\* C15, as amended: velocity, acceleration, speedMode and position of the
\* ship change only in handleInput and updateShip, inside a frame; the
\* orientation (rotation, and angles, its doubles) changes there and, between
\* two frames, in the mousemove listener while mouse.isDown is true, which
\* changes nothing else of the ship.  keydown, keyup, mousedown and mouseup change no field of the ship.
C15_ShipWriters ==
    [][ ship' # ship =>
          \/ At("handleInput")
          \/ At("updateShip")
          \/ /\ Idle
             /\ mouse.isDown
             /\ moves' = moves + 1
             /\ keys' = keys
             /\ mouse' = mouse
             /\ ship' = [ship EXCEPT !.rotation = ship'.rotation,
                                     !.angles = ship'.angles]
      ]_vars

\* C15: between two frames a mousemove under a drag has turned a moving ship
\* that the frame before had left unturned
C15_Witness ==
    /\ Idle
    /\ moves = 1
    /\ mouse.isDown
    /\ ship.rotation # pre.rotation
    /\ ship.velocity # Zero3
    /\ ship.position = VAdd(pre.position, ship.velocity)

\* C15, as stated: the ship changes only in the flight update of the frame
\* loop; no listener that runs between two frames changes any field of it.
C15_Original ==
    [][ ship' # ship => (At("handleInput") \/ At("updateShip")) ]_vars

\* C16: a mousedown of button 0 sets mouse.isDown and a mouseup of button 0
\* clears it; an event of another button leaves it as it is, and nothing else
\* changes it.  A mousemove that finds the flag false leaves the ship as it
\* is, and between two frames the rotation changes only in a mousemove that
\* finds the flag true.
C16_DragGate ==
    [][ /\ \A b \in Buttons :
              MouseDown(b) => mouse'.isDown = IF b = 0 THEN TRUE ELSE mouse.isDown
        /\ \A b \in Buttons :
              MouseUp(b) => mouse'.isDown = IF b = 0 THEN FALSE ELSE mouse.isDown
        /\ mouse' # mouse => (MouseDown(0) \/ MouseUp(0))
        /\ (moves' = moves + 1 /\ ~mouse.isDown) => ship' = ship
        /\ (Idle /\ ship'.rotation # ship.rotation) =>
              (mouse.isDown /\ moves' = moves + 1)
      ]_vars

\* C16: after a drag pitched the ship short of the bound and the button was
\* released, a mousemove has arrived and left the rotation as the last frame
\* found it
C16_Witness ==
    /\ Idle
    /\ moves = 1
    /\ ~mouse.isDown
    /\ keys = {}
    /\ pre.rotation.x \notin { 0, HalfPi, -HalfPi }
    /\ ship.rotation = pre.rotation

\* C17: exactly one callback is pending at all times; an invocation of
\* animate registers the next one as it begins, before any stage has run; and
\* every frame short of the bound is followed by the next frame, whether its
\* stages completed or one of them threw.
C17_LoopNeverStops ==
    /\ [](raf = 1)
    /\ [][ frame' # frame =>
              /\ frame' = frame + 1
              /\ raf' = 1
              /\ pc' = 1
              /\ done' = << >> ]_vars
    /\ \A n \in 1..(LoopFrames - 1) : (frame = n) ~> (frame = n + 1)

\* C17: the third frame has begun although the first two threw before their
\* orbital update
C17_Witness ==
    /\ frame = 3
    /\ pc = 1
    /\ raf = 1
    /\ ticks = 0
    /\ done = << >>

\* C18: the load ends once, with success or with an error; either callback
\* adds the ship group to the scene, so the group is in the scene once when
\* the load has ended and not before; the error callback is the fallback and
\* not a failure; and the callback leaves velocity, acceleration, speedMode,
\* rotation and position of the ship as they were.
C18_LoadFallback ==
    /\ [](shipInScene = IF load = "pending" THEN 0 ELSE 1)
    /\ [][ load' # load =>
              /\ load = "pending"
              /\ load' \in { "loaded", "failed" }
              /\ shipInScene' = shipInScene + 1
              /\ ship' = ship
              /\ pc' = pc /\ raf' = raf ]_vars

\* C18: the load has failed between two frames under thrust; the ship group
\* is in the scene once and the ship is moving away from the origin
C18_Witness ==
    /\ load = "failed"
    /\ shipInScene = 1
    /\ Idle
    /\ frame = 2
    /\ ship.velocity # Zero3
    /\ ship.position # Zero3
    /\ ship.acceleration # 0

\* C20: from velocity (0,0,0), speedMode 1 and an unturned ship (forward is
\* (0,0,-1)), one frame with KeyW held gives acceleration 0.5 and velocity
\* (0,0,-0.49): 0.5 along forward times 0.98, which the cap of 200 leaves
\* alone; the position advances by exactly that velocity.
C20_FirstThrustFrame ==
    ( /\ JustRan("updateShip")
      /\ pre.velocity = Zero3
      /\ pre.speedMode = 1
      /\ pre.rotation = Zero3
      /\ "KeyW" \in keys
      /\ keys \cap (ControlKeys \ { "KeyW", "KeyS", "Digit1" }) = {} ) =>
        /\ ship.acceleration = 50
        /\ ship.velocity = Vec(0, 0, -49)
        /\ Length(ship.velocity) < 20000
        /\ ship.position = VAdd(pre.position, Vec(0, 0, -49))

\* C20: the second frame has run with only KeyW held on the ship as it was
\* created
C20_Witness ==
    /\ JustRan("updateShip")
    /\ frame = 2
    /\ keys = { "KeyW" }
    /\ pre = ShipInit
    /\ ship.acceleration = 50
    /\ ship.velocity = Vec(0, 0, -49)
    /\ ship.position = Vec(0, 0, -49)

\* a ship at rest at the origin, unturned, in mode 1, with acceleration a
AtRestWith(a) == [ShipInit EXCEPT !.acceleration = a]

C21_LevelSampled ==
    /\ [][ keys' # keys => (Idle /\ ship' = ship) ]_vars
    /\ [](JustRan("handleInput") =>
             ship.rotation.y =
                 pre.rotation.y + (IF "KeyA" \in keys THEN 200 ELSE 0))
    /\ [](ship.rotation.y \in { 200 * k : k \in 0..(frame - 1) })

\* C21: KeyA has been held across the second and the third frame, after the
\* first frame ran with no key: the yaw is 2 * 0.02
C21_Witness ==
    /\ JustRan("handleInput")
    /\ frame = 3
    /\ "KeyA" \in keys
    /\ pre.rotation.y = 200
    /\ ship.rotation.y = 400

\* C22: updateShip thrusts along the forward vector of the orientation that
\* the same frame's handleInput has left: yaw, roll and pitch input and the
\* clamp of the pitch come first; handleInput itself, whose own forward
\* vector is never used, leaves velocity and position as they were.
C22_ThrustAlongNewForward ==
    /\ JustRan("handleInput") =>
           /\ ship.velocity = pre.velocity
           /\ ship.position = pre.position
    /\ JustRan("updateShip") =>
           LET rot == Vec(ClampPitch(pre.rotation.x
                                     + (IF "Space" \in keys THEN 200 ELSE 0)),
                          pre.rotation.y + (IF "KeyA" \in keys THEN 200 ELSE 0),
                          pre.rotation.z + (IF "KeyQ" \in keys THEN 200 ELSE 0))
               ahead == ApplyQuaternion(Vec(0, 0, -10000), rot)
           IN  /\ ship.rotation = rot
               /\ ship.velocity =
                      VScale(VAdd(pre.velocity,
                                  VScale(ahead, ship.acceleration, 10000)),
                             98, 100)

\* C22: updateShip has run under thrust in a frame that yawed and pitched a
\* moving ship, and the old and the new forward vector give other velocities
C22_Witness ==
    /\ JustRan("updateShip")
    /\ { "KeyW", "KeyA", "Space" } \subseteq keys
    /\ pre.velocity # Zero3
    /\ pre.rotation # Zero3
    /\ ship.velocity #
           VScale(VAdd(pre.velocity,
                       VScale(Forward(pre.rotation), ship.acceleration, TrigScale)),
                  98, 100)

\* C23: whatever keys are held and whatever the mode, the speed that
\* updateShip computes is below 73.5 = 49 * 0.5 * 3, hence below the smallest
\* cap, 200: the test of the cap fails in every frame and the velocity is the
\* one the drag left.
C23_CapNeverApplies ==
    /\ Length(ship.velocity) < 7350
    /\ JustRan("updateShip") =>
           LET raw == VScale(VAdd(pre.velocity,
                                  VScale(Forward(ship.rotation),
                                         ship.acceleration, TrigScale)),
                             98, 100)
           IN  /\ Length(raw) < 7350
               /\ Length(raw) <= maxSpeed * ship.speedMode
               /\ ship.velocity = raw

\* C23: after a long run under forward thrust in mode 3 the speed is above
\* 70, and a frame has switched to mode 1, whose cap is 200
C23_Witness ==
    /\ JustRan("updateShip")
    /\ pre.speedMode = 3
    /\ ship.speedMode = 1
    /\ "KeyW" \in keys
    /\ Length(pre.velocity) > 7000
    /\ Length(ship.velocity) > 7000

\* C24: ship.mesh is the group createSpaceship made in every state from the
\* first frame on, whatever the model load does; while the load is pending
\* the group is not in the scene, and with the load pending, done or failed
\* every frame turns the ship by the keys held, steps the velocity along the
\* new forward vector and moves the ship by it.
C24_LoadInterleaving ==
    /\ ship.mesh = "group"
    /\ pre.mesh = "group"
    /\ load \in { "pending", "loaded", "failed" }
    /\ load = "pending" => shipInScene = 0
    /\ JustRan("handleInput") =>
           ship.rotation.y =
               pre.rotation.y + (IF "KeyA" \in keys THEN rotationSpeed ELSE 0)
    /\ JustRan("updateShip") =>
           /\ ship.rotation.y =
                  pre.rotation.y + (IF "KeyA" \in keys THEN rotationSpeed ELSE 0)
           /\ ship.velocity =
                  VScale(VAdd(pre.velocity,
                              VScale(Forward(ship.rotation),
                                     ship.acceleration, TrigScale)),
                         98, 100)
           /\ ship.position = VAdd(pre.position, ship.velocity)

\* C24: the third frame has run updateShip with the load still pending: the
\* ship has turned twice, is moving and has left the origin, and is not in
\* the scene
C24_Witness ==
    /\ JustRan("updateShip")
    /\ frame = 3
    /\ load = "pending"
    /\ shipInScene = 0
    /\ { "KeyW", "KeyA" } \subseteq keys
    /\ ship.rotation.y = 2 * rotationSpeed
    /\ pre.velocity # Zero3
    /\ ship.velocity # pre.velocity
    /\ ship.position # pre.position

Near(a, b) == MagLess(DSub(a, b).mag, << 2048, 0, 0, 0 >>)

\* C26, as amended: with both keys of a pair held, the angle after
\* handleInput is the angle before to within the rounding of the two
\* operations, less than 2^-50 rad for the angles reached here, and is the
\* same in 1/10000 rad; it is the same double when the angle before is 0, and
\* the pitch is the same double when it is at the bound pi/2 or -pi/2.
C26_PairsCancel ==
    JustRan("handleInput") =>
        /\ { "KeyA", "KeyD" } \subseteq keys =>
              /\ ship.rotation.y = pre.rotation.y
              /\ Near(ship.angles.y, pre.angles.y)
              /\ pre.angles.y = DZero => ship.angles.y = DZero
        /\ { "KeyQ", "KeyE" } \subseteq keys =>
              /\ ship.rotation.z = pre.rotation.z
              /\ Near(ship.angles.z, pre.angles.z)
              /\ pre.angles.z = DZero => ship.angles.z = DZero
        /\ { "Space", "ShiftLeft" } \subseteq keys =>
              /\ ship.rotation.x = pre.rotation.x
              /\ Near(ship.angles.x, pre.angles.x)
              /\ pre.angles.x \in { DZero, HalfPiD, DNeg(HalfPiD) } =>
                    ship.angles.x = pre.angles.x

\* C26: handleInput has run with Space and ShiftLeft held on a ship pitched
\* to the bound pi/2 by a drag, and the pitch is still at the bound
C26_Witness ==
    /\ JustRan("handleInput")
    /\ { "Space", "ShiftLeft" } \subseteq keys
    /\ pre.angles.x = HalfPiD
    /\ pre.rotation.x = HalfPi
    /\ ship.angles.x = HalfPiD
    /\ ship.rotation.x = HalfPi

\* C26, as first stated: with both keys of a pair held, the angle after
\* handleInput is the very number it was before.
C26_Original ==
    JustRan("handleInput") =>
        /\ { "KeyA", "KeyD" } \subseteq keys => ship.angles.y = pre.angles.y
        /\ { "KeyQ", "KeyE" } \subseteq keys => ship.angles.z = pre.angles.z
        /\ { "Space", "ShiftLeft" } \subseteq keys => ship.angles.x = pre.angles.x

\* C27: after handleInput speedMode is 3 if Digit3 is held, else 2 if Digit2
\* is held, else 1 if Digit1 is held, else what it was: of several mode keys
\* held the highest wins, in whatever order they were pressed; the keys held
\* are a set, which keeps no order.
C27_HighestDigitWins ==
    JustRan("handleInput") =>
        ship.speedMode =
            IF "Digit3" \in keys THEN 3
            ELSE IF "Digit2" \in keys THEN 2
            ELSE IF "Digit1" \in keys THEN 1
            ELSE pre.speedMode

\* C27: Digit2 alone had set mode 2; with Digit1, Digit2 and Digit3 all held
\* handleInput has set mode 3
C27_Witness ==
    /\ JustRan("handleInput")
    /\ ModeRequests \subseteq keys
    /\ pre.speedMode = 2
    /\ ship.speedMode = 3

====
